---- MODULE Spec2Model ----
(***************************************************************************)
(* Model of the two algorithmic components of the summarization pipeline:  *)
(*   - HierarchicalMerger (src/merger.py): concurrent pairwise reduction   *)
(*   - SmartChunker (src/chunker.py): boundary-aware chunking              *)
(* A text is a sequence of tokens.  In the merger a chunk of the pool is   *)
(* the one-token text <<i>>; in the chunker a token is one character.      *)
(***************************************************************************)
EXTENDS Integers, Sequences, FiniteSets, TLC

\* ---------------------------------------------------------------- bounds
MaxPool == 5
MaxWorkers == 2
MaxLen == 7
MaxChunkSize == 6
MaxOverlap == 3
MaxMin == 2

\* ------------------------------------------------------- generic helpers
Range(s) == {s[i] : i \in 1..Len(s)}

Min(a, b) == IF a < b THEN a ELSE b

SetMin(S) == CHOOSE x \in S : \A y \in S : x <= y

Perms(s) ==
    {p \in [1..Len(s) -> Range(s)] : \A x \in Range(s) : \E i \in 1..Len(s) : p[i] = x}

RECURSIVE Count(_, _)
Count(s, x) ==
    IF s = <<>> THEN 0
    ELSE (IF Head(s) = x THEN 1 ELSE 0) + Count(Tail(s), x)

RECURSIVE CeilLog2(_)
CeilLog2(n) == IF n <= 1 THEN 0 ELSE 1 + CeilLog2((n + 1) \div 2)

\* ------------------------------------------------------------ merger.py
VARIABLES
    documents,      \* the list object passed by the caller
    shuffle,        \* settings.SHUFFLE_CHUNKS
    max_workers,    \* self.max_workers
    mpc,            \* position of the calling thread in merge_documents
    current_level,
    next_level,
    pairs,
    fstate,         \* state of the future of each submitted pair
    fresult,        \* value held by each finished future
    finished,       \* futures in the order in which they finished
    snapshot,       \* futures already finished when as_completed starts
    yielded,        \* futures as_completed has yielded so far
    result,         \* return value of merge_documents
    raised,         \* an exception escaped merge_documents
    pools,          \* executors: "open" or "shutdown", in creation order
    levels,         \* history: working set at the start of every round
    calls,          \* history: pairs submitted in every round
    fails,          \* history: pairs whose call failed, per round
    original        \* history: the caller's list as it was at the call

mvars == <<documents, shuffle, max_workers, mpc, current_level,
           next_level, pairs, fstate, fresult, finished, snapshot, yielded,
           result, raised, pools, levels, calls, fails, original>>

\* ----------------------------------------------------------- chunker.py
VARIABLES
    raw,            \* the text passed to chunk_document
    max_chunk_size, \* self.max_chunk_size
    overlap,        \* self.overlap
    min_chunk_size, \* the min_chunk_size argument of chunk_document
    cpc,            \* position in chunk_document / chunk_text
    text,           \* cleaned_text, the argument of _split_text_manual
    start,          \* the cursor of _split_text_manual
    chunks,         \* the chunks list of _split_text_manual
    starts,         \* history: value of the cursor when each chunk was cut
    merged_chunks,
    filtered_chunks \* return value of chunk_document

cvars == <<raw, max_chunk_size, overlap, min_chunk_size, cpc, text, start,
           chunks, starts, merged_chunks, filtered_chunks>>

vars == <<mvars, cvars>>

\* ------------------------------------------------------ merger.py, cont.
SEP == 0

Chunk(i) == <<i>>

Pool(n) == [i \in 1..n |-> Chunk(i)]

\* variant: the second text of the pair is left out of the joined prompt
JoinFirstOnly(pair) == pair[1]

\* "\n\n".join(pair)
Join(pair) == pair[1] \o <<SEP>> \o pair[2]

\* summarize(): a stub that returns the texts it is given
Summarize(t) == t

MergePair(pair) == Summarize(Join(pair))

\* variant: range(0, len(documents) - 1) without the step of 2
CreatePairsNoStep(docs) ==
    [k \in 1..(Len(docs) - 1) |-> <<docs[k], docs[k + 1]>>]

CreatePairs(docs) ==
    [k \in 1..(Len(docs) \div 2) |-> <<docs[2 * k - 1], docs[2 * k]>>]

Running == {i \in DOMAIN fstate : fstate[i] = "running"}

Queued == {i \in DOMAIN fstate : fstate[i] = "queued"}

Done == {i \in DOMAIN fstate : fstate[i] \in {"ok", "failed"}}

\* variant: future.result() outside any try block
CollectedUncaught(level, state, value) ==
    IF state = "ok"
    THEN [next_level |-> Append(level, value), raised |-> FALSE]
    ELSE [next_level |-> level, raised |-> TRUE]

\* try: merged = future.result(); next_level.append(merged)
\* except Exception: print(...)
Collected(level, state, value) ==
    IF state = "ok"
    THEN [next_level |-> Append(level, value), raised |-> FALSE]
    ELSE [next_level |-> level, raised |-> FALSE]

\* variant: the unpaired document is forgotten
WithOddTailDropped(level, cur) == level

\* variant: the unpaired document is appended in every round
WithTailAlways(level, cur) == Append(level, cur[Len(cur)])

\* if len(current_level) % 2 == 1: next_level.append(current_level[-1])
WithOddTail(level, cur) ==
    IF Len(cur) % 2 = 1 THEN Append(level, cur[Len(cur)]) ELSE level

MergeInit ==
    /\ \E n \in 0..MaxPool : documents = Pool(n)
    /\ shuffle \in BOOLEAN
    /\ max_workers \in 1..MaxWorkers
    /\ mpc = "call"
    /\ current_level = <<>>
    /\ next_level = <<>>
    /\ pairs = <<>>
    /\ fstate = <<>>
    /\ fresult = <<>>
    /\ finished = <<>>
    /\ snapshot = {}
    /\ yielded = {}
    /\ result = <<>>
    /\ raised = FALSE
    /\ pools = <<>>
    /\ levels = <<>>
    /\ calls = <<>>
    /\ fails = <<>>
    /\ original = documents

\* if not documents: return ""
MergeEmpty ==
    /\ mpc = "call"
    /\ Len(documents) = 0
    /\ result' = <<>>
    /\ mpc' = "done"
    /\ UNCHANGED <<documents, shuffle, max_workers, current_level,
                   next_level, pairs, fstate, fresult, finished, snapshot,
                   yielded, raised, pools, levels, calls, fails, original>>
    /\ UNCHANGED cvars

\* variant: a single document is treated like an empty list
MergeSingleEmpty ==
    /\ mpc = "call"
    /\ Len(documents) = 1
    /\ result' = <<>>
    /\ mpc' = "done"
    /\ UNCHANGED <<documents, shuffle, max_workers, current_level,
                   next_level, pairs, fstate, fresult, finished, snapshot,
                   yielded, raised, pools, levels, calls, fails, original>>
    /\ UNCHANGED cvars

\* if len(documents) == 1: return documents[0]
MergeSingle ==
    /\ mpc = "call"
    /\ Len(documents) = 1
    /\ result' = documents[1]
    /\ mpc' = "done"
    /\ UNCHANGED <<documents, shuffle, max_workers, current_level,
                   next_level, pairs, fstate, fresult, finished, snapshot,
                   yielded, raised, pools, levels, calls, fails, original>>
    /\ UNCHANGED cvars

\* if settings.SHUFFLE_CHUNKS: random.shuffle(documents)
\* current_level = documents
MergeBegin ==
    /\ mpc = "call"
    /\ Len(documents) > 1
    /\ IF shuffle
       THEN \E p \in Perms(documents) : documents' = p
       ELSE documents' = documents
    /\ current_level' = documents'
    /\ levels' = <<documents'>>
    /\ mpc' = "loop"
    /\ UNCHANGED <<shuffle, max_workers, next_level, pairs, fstate,
                   fresult, finished, snapshot, yielded, result, raised,
                   pools, calls, fails, original>>
    /\ UNCHANGED cvars

\* while len(current_level) > 1: next_level = []; pairs = ...;
\* with ThreadPoolExecutor(...) as executor: submit every pair
RoundStart ==
    /\ mpc = "loop"
    /\ Len(current_level) > 1
    /\ next_level' = <<>>
    /\ pairs' = CreatePairs(current_level)
    /\ pools' = Append(pools, "open")
    /\ fstate' = [i \in 1..Len(pairs') |-> "queued"]
    /\ fresult' = [i \in 1..Len(pairs') |-> <<>>]
    /\ finished' = <<>>
    /\ snapshot' = {}
    /\ yielded' = {}
    /\ calls' = Append(calls, pairs')
    /\ fails' = Append(fails, {})
    /\ mpc' = "submitted"
    /\ UNCHANGED <<documents, shuffle, max_workers, current_level,
                   result, raised, levels, original>>
    /\ UNCHANGED cvars

\* variant: a work item is started whatever the number of busy workers
WorkerStartUnbounded ==
    /\ mpc \in {"submitted", "collect"}
    /\ Queued # {}
    /\ fstate' = [fstate EXCEPT ![SetMin(Queued)] = "running"]
    /\ UNCHANGED <<documents, shuffle, max_workers, mpc,
                   current_level, next_level, pairs, fresult, finished,
                   snapshot, yielded, result, raised, pools, levels, calls,
                   fails, original>>
    /\ UNCHANGED cvars

\* a worker thread of the executor takes the oldest queued work item
WorkerStart ==
    /\ mpc \in {"submitted", "collect"}
    /\ Queued # {}
    /\ Cardinality(Running) < max_workers
    /\ fstate' = [fstate EXCEPT ![SetMin(Queued)] = "running"]
    /\ UNCHANGED <<documents, shuffle, max_workers, mpc,
                   current_level, next_level, pairs, fresult, finished,
                   snapshot, yielded, result, raised, pools, levels, calls,
                   fails, original>>
    /\ UNCHANGED cvars

\* _merge_pair returns, or summarize() raises
WorkerFinish ==
    /\ mpc \in {"submitted", "collect"}
    /\ \E i \in Running :
        \E ok \in BOOLEAN :
            /\ fstate' = [fstate EXCEPT ![i] = IF ok THEN "ok" ELSE "failed"]
            /\ fresult' = [fresult EXCEPT
                              ![i] = IF ok THEN MergePair(pairs[i]) ELSE <<>>]
            /\ finished' = Append(finished, i)
            /\ fails' = [fails EXCEPT ![Len(fails)] =
                            IF ok THEN @ ELSE @ \cup {pairs[i]}]
    /\ UNCHANGED <<documents, shuffle, max_workers, mpc,
                   current_level, next_level, pairs, snapshot, yielded,
                   result, raised, pools, levels, calls, original>>
    /\ UNCHANGED cvars

\* for future in as_completed(future_to_pair): the generator starts and
\* records the futures that are already finished
AsCompleted ==
    /\ mpc = "submitted"
    /\ snapshot' = Done
    /\ mpc' = "collect"
    /\ UNCHANGED <<documents, shuffle, max_workers, current_level,
                   next_level, pairs, fstate, fresult, finished, yielded,
                   result, raised, pools, levels, calls, fails, original>>
    /\ UNCHANGED cvars

\* variant: the finished futures are taken in the order of submission
YieldableInSubmissionOrder ==
    IF Done \ yielded # {} THEN {SetMin(Done \ yielded)} ELSE {}

\* futures as_completed may yield next: any already-finished one of the
\* snapshot first, then the others in the order in which they finish
Yieldable ==
    IF snapshot \ yielded # {}
    THEN snapshot \ yielded
    ELSE LET later == SelectSeq(finished, LAMBDA i : i \notin yielded)
         IN IF later = <<>> THEN {} ELSE {Head(later)}

\* one iteration of the for loop over as_completed
Collect ==
    /\ mpc = "collect"
    /\ \E i \in Yieldable :
        LET c == Collected(next_level, fstate[i], fresult[i])
        IN /\ yielded' = yielded \cup {i}
           /\ next_level' = c.next_level
           /\ raised' = c.raised
           /\ mpc' = IF c.raised THEN "done" ELSE "collect"
    /\ UNCHANGED <<documents, shuffle, max_workers, current_level,
                   pairs, fstate, fresult, finished, snapshot, result, pools,
                   levels, calls, fails, original>>
    /\ UNCHANGED cvars

\* variant: the executor of the round is left open
RoundEndNoShutdown ==
    /\ mpc = "collect"
    /\ yielded = DOMAIN fstate
    /\ next_level' = WithOddTail(next_level, current_level)
    /\ current_level' = next_level'
    /\ levels' = Append(levels, next_level')
    /\ mpc' = "loop"
    /\ UNCHANGED <<documents, shuffle, max_workers, pairs, fstate,
                   fresult, finished, snapshot, yielded, result, raised,
                   pools, calls, fails, original>>
    /\ UNCHANGED cvars

\* variant: the round is closed without waiting for all of its futures
RoundEndEarly ==
    /\ mpc = "collect"
    /\ pools' = [pools EXCEPT ![Len(pools)] = "shutdown"]
    /\ next_level' = WithOddTail(next_level, current_level)
    /\ current_level' = next_level'
    /\ levels' = Append(levels, next_level')
    /\ mpc' = "loop"
    /\ UNCHANGED <<documents, shuffle, max_workers, pairs, fstate,
                   fresult, finished, snapshot, yielded, result, raised,
                   calls, fails, original>>
    /\ UNCHANGED cvars

\* as_completed is exhausted, the with block shuts the executor down, the
\* odd tail is appended and current_level = next_level
RoundEnd ==
    /\ mpc = "collect"
    /\ yielded = DOMAIN fstate
    /\ pools' = [pools EXCEPT ![Len(pools)] = "shutdown"]
    /\ next_level' = WithOddTail(next_level, current_level)
    /\ current_level' = next_level'
    /\ levels' = Append(levels, next_level')
    /\ mpc' = "loop"
    /\ UNCHANGED <<documents, shuffle, max_workers, pairs, fstate,
                   fresult, finished, snapshot, yielded, result, raised,
                   calls, fails, original>>
    /\ UNCHANGED cvars

\* variant: the first document of the caller's list is returned
MergeReturnInput ==
    /\ mpc = "loop"
    /\ Len(current_level) <= 1
    /\ result' = IF Len(current_level) > 0 THEN documents[1] ELSE <<>>
    /\ mpc' = "done"
    /\ UNCHANGED <<documents, shuffle, max_workers, current_level,
                   next_level, pairs, fstate, fresult, finished, snapshot,
                   yielded, raised, pools, levels, calls, fails, original>>
    /\ UNCHANGED cvars

\* return current_level[0] if current_level else ""
MergeReturn ==
    /\ mpc = "loop"
    /\ Len(current_level) <= 1
    /\ result' = IF Len(current_level) > 0 THEN current_level[1] ELSE <<>>
    /\ mpc' = "done"
    /\ UNCHANGED <<documents, shuffle, max_workers, current_level,
                   next_level, pairs, fstate, fresult, finished, snapshot,
                   yielded, raised, pools, levels, calls, fails, original>>
    /\ UNCHANGED cvars


\* ------------------------------------------------------------ chunker.py
\* characters of the input texts; "a" stands for every non-separator
Chars == {"a", ".", " "}

\* what the regular expression \s and str.strip() take for whitespace
Whitespace == {" ", "\n", "\t", "\r"}

Texts == UNION {[1..n -> Chars] : n \in 0..MaxLen}

\* number of loop iterations after which a run of _split_text_manual has
\* visited some cursor value twice
MaxIter == MaxLen + 2

\* text[a:b]
Slice(t, a, b) == SubSeq(t, a + 1, b)

RECURSIVE LStrip(_)
LStrip(t) ==
    IF t # <<>> /\ Head(t) \in Whitespace THEN LStrip(Tail(t)) ELSE t

RECURSIVE RStrip(_)
RStrip(t) ==
    IF t # <<>> /\ t[Len(t)] \in Whitespace
    THEN RStrip(SubSeq(t, 1, Len(t) - 1))
    ELSE t

\* str.strip()
Strip(t) == RStrip(LStrip(t))

\* re.sub(r"\s+", " ", t)
RECURSIVE CollapseWs(_)
CollapseWs(t) ==
    IF t = <<>> THEN <<>>
    ELSE IF Head(t) \in Whitespace
         THEN <<" ">> \o CollapseWs(LStrip(t))
         ELSE <<Head(t)>> \o CollapseWs(Tail(t))

\* cleaned_text = re.sub(r"\s+", " ", text.strip())
Normalize(t) == CollapseWs(Strip(t))

Separators ==
    << <<"\n", "\n">>, <<"\n">>, <<".", " ">>, <<"!", " ">>, <<"?", " ">>,
       <<";", " ">>, <<",", " ">>, <<" ">> >>

\* text.rfind(separator, start, end)
Rfind(t, sep, from, to) ==
    LET hits == {p \in from..(to - Len(sep)) : Slice(t, p, p + Len(sep)) = sep}
    IN IF hits = {} THEN -1 ELSE CHOOSE p \in hits : \A q \in hits : q <= p

\* pos != -1 and pos > start + (self.max_chunk_size * 0.6); for integers
\* the float comparison agrees with 5 * (pos - start) > 3 * max_chunk_size
Qualifies(pos, from, max) == pos # -1 /\ 5 * (pos - from) > 3 * max

\* the for loop over the separators, from separator number k on
RECURSIVE BreakFrom(_, _, _, _, _)
BreakFrom(k, t, from, to, max) ==
    IF k > Len(Separators) THEN to
    ELSE LET pos == Rfind(t, Separators[k], from, to)
         IN IF Qualifies(pos, from, max)
            THEN pos + Len(Separators[k])
            ELSE BreakFrom(k + 1, t, from, to, max)

BestBreakPos(t, from, to, max) == BreakFrom(1, t, from, to, max)

\* start = best_break_pos - overlap if best_break_pos > overlap
\*         else best_break_pos
NextStart(bp, ov) == IF bp > ov THEN bp - ov ELSE bp

\* variant: the length of the chunk to add is left out of the test
FitsIgnoringChunk(cur, chunk, max) == Len(cur) <= max

\* len(current_chunk) + len(chunk) <= self.max_chunk_size
Fits(cur, chunk, max) == Len(cur) + Len(chunk) <= max

\* variant: the accumulator is emitted whatever its length
FlushAlways(merged, cur, min) ==
    IF cur # <<>> THEN Append(merged, cur) ELSE merged

\* if current_chunk and len(current_chunk) >= min_chunk_size:
\*     merged_chunks.append(current_chunk)
Flush(merged, cur, min) ==
    IF cur # <<>> /\ Len(cur) >= min THEN Append(merged, cur) ELSE merged

\* the for loop of chunk_document from raw chunk number i on, and the
\* final flush
RECURSIVE CoalesceFrom(_, _, _, _, _, _)
CoalesceFrom(cs, i, cur, merged, max, min) ==
    IF i > Len(cs) THEN Flush(merged, cur, min)
    ELSE LET chunk == Strip(cs[i])
         IN IF chunk = <<>>
            THEN CoalesceFrom(cs, i + 1, cur, merged, max, min)
            ELSE IF Fits(cur, chunk, max)
                 THEN CoalesceFrom(cs, i + 1,
                                   IF cur # <<>> THEN cur \o <<" ">> \o chunk
                                                 ELSE chunk,
                                   merged, max, min)
                 ELSE CoalesceFrom(cs, i + 1, chunk, Flush(merged, cur, min),
                                   max, min)

Coalesce(cs, max, min) == CoalesceFrom(cs, 1, <<>>, <<>>, max, min)

\* 0-based positions of first_chunk, middle_chunk and second_to_last_chunk
\* in a list of n > 3 chunks: 0, n // 2 and n - 2
FilterIndexes(n) == <<0, n \div 2, n - 2>>

\* variant: the last chunk is taken instead of the second to last
FilterChunksLast(cs) ==
    IF Len(cs) <= 3 THEN cs
    ELSE <<cs[1], cs[Len(cs) \div 2 + 1], cs[Len(cs)]>>

FilterChunks(cs) ==
    IF Len(cs) <= 3 THEN cs
    ELSE <<cs[1], cs[Len(cs) \div 2 + 1], cs[Len(cs) - 1]>>

ChunkInit ==
    /\ raw \in Texts
    /\ max_chunk_size \in 1..MaxChunkSize
    /\ overlap \in 0..MaxOverlap
    /\ min_chunk_size = 0
    /\ cpc = "call"
    /\ text = <<>>
    /\ start = 0
    /\ chunks = <<>>
    /\ starts = <<>>
    /\ merged_chunks = <<>>
    /\ filtered_chunks = <<>>

\* chunk_document calls chunk_text, which cleans the text and enters
\* _split_text_manual (the chonkie package is not installed)
ChunkText ==
    /\ cpc = "call"
    /\ text' = Normalize(raw)
    /\ start' = 0
    /\ chunks' = <<>>
    /\ starts' = <<>>
    /\ cpc' = "loop"
    /\ UNCHANGED <<raw, max_chunk_size, overlap, min_chunk_size,
                   merged_chunks, filtered_chunks>>
    /\ UNCHANGED mvars

\* while start < text_length: false; return chunks
SplitExit ==
    /\ cpc = "loop"
    /\ ~(start < Len(text))
    /\ cpc' = "coalesce"
    /\ UNCHANGED <<raw, max_chunk_size, overlap, min_chunk_size, text, start,
                   chunks, starts, merged_chunks, filtered_chunks>>
    /\ UNCHANGED mvars

\* an iteration with end == text_length: the last chunk, break
SplitLast ==
    /\ cpc = "loop"
    /\ start < Len(text)
    /\ Min(start + max_chunk_size, Len(text)) = Len(text)
    /\ chunks' = Append(chunks, Slice(text, start, Len(text)))
    /\ starts' = Append(starts, start)
    /\ cpc' = "coalesce"
    /\ UNCHANGED <<raw, max_chunk_size, overlap, min_chunk_size, text, start,
                   merged_chunks, filtered_chunks>>
    /\ UNCHANGED mvars

\* an iteration with end < text_length: cut at the best break position and
\* move the cursor
SplitStep ==
    /\ cpc = "loop"
    /\ start < Len(text)
    /\ Len(chunks) < MaxIter
    /\ LET end == Min(start + max_chunk_size, Len(text))
           bp == BestBreakPos(text, start, end, max_chunk_size)
       IN /\ end # Len(text)
          /\ chunks' = Append(chunks, Slice(text, start, bp))
          /\ starts' = Append(starts, start)
          /\ start' = NextStart(bp, overlap)
    /\ UNCHANGED <<raw, max_chunk_size, overlap, min_chunk_size, cpc, text,
                   merged_chunks, filtered_chunks>>
    /\ UNCHANGED mvars

\* the rest of chunk_document: coalescing of the raw chunks, then
\* _filter_chunks; the argument min_chunk_size, which nothing reads before
\* the coalescing loop, is drawn here
ChunkDocument ==
    /\ cpc = "coalesce"
    /\ \E m \in 0..MaxMin :
          /\ min_chunk_size' = m
          /\ merged_chunks' = Coalesce(chunks, max_chunk_size, m)
    /\ filtered_chunks' = FilterChunks(merged_chunks')
    /\ cpc' = "done"
    /\ UNCHANGED <<raw, max_chunk_size, overlap, text, start, chunks, starts>>
    /\ UNCHANGED mvars

\* ------------------------------------------------------- specifications
\* no merge_documents call
MergeIdle ==
    /\ documents = <<>>
    /\ shuffle = FALSE
    /\ max_workers = 1
    /\ mpc = "idle"
    /\ current_level = <<>>
    /\ next_level = <<>>
    /\ pairs = <<>>
    /\ fstate = <<>>
    /\ fresult = <<>>
    /\ finished = <<>>
    /\ snapshot = {}
    /\ yielded = {}
    /\ result = <<>>
    /\ raised = FALSE
    /\ pools = <<>>
    /\ levels = <<>>
    /\ calls = <<>>
    /\ fails = <<>>
    /\ original = <<>>

\* no chunk_document call
ChunkIdle ==
    /\ raw = <<>>
    /\ max_chunk_size = 1
    /\ overlap = 0
    /\ min_chunk_size = 0
    /\ cpc = "idle"
    /\ text = <<>>
    /\ start = 0
    /\ chunks = <<>>
    /\ starts = <<>>
    /\ merged_chunks = <<>>
    /\ filtered_chunks = <<>>

Init == MergeInit /\ ChunkIdle

Next ==
    \/ MergeEmpty
    \/ MergeSingle
    \/ MergeBegin
    \/ RoundStart
    \/ WorkerStart
    \/ WorkerFinish
    \/ AsCompleted
    \/ Collect
    \/ RoundEnd
    \/ MergeReturn

Spec == Init /\ [][Next]_vars

CInit == ChunkInit /\ MergeIdle

CNext ==
    \/ ChunkText
    \/ SplitExit
    \/ SplitLast
    \/ SplitStep
    \/ ChunkDocument

ChunkSpec == CInit /\ [][CNext]_vars

\* ------------------------------------------------- properties: merger.py
NoFailure == \A k \in 1..Len(fails) : fails[k] = {}

AllFailed == \A k \in 1..Len(fails) : fails[k] = Range(calls[k])

Tokens(t) == Range(t) \ {SEP}

Last(s) == s[Len(s)]

\* C1: without a failed call every round turns a working set of size m > 1
\* into one of size ceil(m/2); the reduction of a pool of n >= 1 chunks
\* takes exactly ceil(log2(n)) rounds, whatever the completion order, and
\* ends with a working set of exactly one element.
C1_SizeLaw ==
    /\ \A k \in 1..Len(fails) :
          (fails[k] = {} /\ Len(levels) > k) =>
              /\ Len(levels[k]) > 1
              /\ Len(levels[k + 1]) = (Len(levels[k]) + 1) \div 2
    /\ (mpc = "done" /\ Len(original) >= 1 /\ NoFailure) =>
          /\ Len(calls) = CeilLog2(Len(original))
          /\ Len(original) > 1 => Len(current_level) = 1

\* a pool of five reduced in three rounds, the second pair of round 1
\* completing before the first
C1_Witness ==
    /\ mpc = "done"
    /\ Len(original) = 5
    /\ ~shuffle
    /\ NoFailure
    /\ Len(calls) = 3
    /\ levels[2][1] = MergePair(<<Chunk(3), Chunk(4)>>)

\* C2: when exactly one pair's call fails in a round, the next working set
\* has one element fewer than without the failure, holds neither text of
\* the failed pair, and no exception escapes merge_documents.
C2_PairFailureIsolation ==
    /\ ~raised
    /\ \A k \in 1..Len(fails) :
          (Cardinality(fails[k]) = 1 /\ Len(levels) > k) =>
              /\ Len(levels[k + 1]) = (Len(levels[k]) + 1) \div 2 - 1
              /\ \A p \in fails[k] : \A j \in 1..Len(levels[k + 1]) :
                    /\ levels[k + 1][j] \notin {p[1], p[2]}
                    /\ Tokens(levels[k + 1][j])
                          \cap (Tokens(p[1]) \cup Tokens(p[2])) = {}

\* one of the two pairs of a round over five texts has failed and the
\* reduction has gone on to its end
C2_Witness ==
    /\ mpc = "done"
    /\ Len(original) = 5
    /\ Cardinality(fails[1]) = 1
    /\ Len(levels[2]) = 2
    /\ result # <<>>

\* C3 (amended): when every call fails, a pool of even size >= 2 gives an
\* empty next level and the result "", and a pool of odd size >= 3 gives a
\* next level holding only the unpaired last document, which is returned
\* unchanged; nothing is raised.
C3_TotalFailure ==
    (mpc = "done" /\ Len(original) >= 2 /\ AllFailed) =>
        /\ ~raised
        /\ Len(levels) = 2
        /\ IF Len(original) % 2 = 0
           THEN levels[2] = <<>> /\ result = <<>>
           ELSE levels[2] = <<Last(documents)>> /\ result = Last(documents)

C3_Witness ==
    /\ mpc = "done"
    /\ Len(original) = 4
    /\ AllFailed
    /\ Cardinality(fails[1]) = 2
    /\ result = <<>>

\* C3 as stated: when every call fails, every pool of two or more elements
\* gives an empty next level and the result "".
C3_Original ==
    (mpc = "done" /\ Len(original) >= 2 /\ AllFailed) =>
        /\ ~raised
        /\ levels[2] = <<>>
        /\ result = <<>>

\* C4: an empty pool gives "", a pool of one element gives that element
\* unchanged, and in both cases no summarization call is made.
C4_EmptyAndSingle ==
    (mpc = "done" /\ Len(original) <= 1) =>
        /\ result = IF Len(original) = 0 THEN <<>> ELSE original[1]
        /\ calls = <<>>
        /\ pools = <<>>
        /\ ~raised

C4_Witness ==
    /\ mpc = "done"
    /\ Len(original) = 1
    /\ result = Chunk(1)

\* C5: in every round whose working set has odd size the last element is in
\* no pair, no call of the round receives it, and it is in the next working
\* set with its text unchanged.
C5_OddTail ==
    \A k \in 1..Len(calls) :
        Len(levels[k]) % 2 = 1 =>
            /\ \A i \in 1..Len(calls[k]) :
                  /\ Last(levels[k]) \notin Range(calls[k][i])
                  /\ Tokens(Join(calls[k][i])) \cap Tokens(Last(levels[k])) = {}
            /\ Len(levels) > k =>
                  /\ Len(levels[k + 1]) >= 1
                  /\ Last(levels[k + 1]) = Last(levels[k])

\* the fifth chunk is the odd tail of round 1 and of round 2
C5_Witness ==
    /\ Len(levels) >= 3
    /\ Len(levels[1]) = 5
    /\ Len(levels[2]) = 3
    /\ Last(levels[3]) = Last(levels[1])

\* C10 (amended): with a stub that never fails and returns the texts it is
\* given, the result holds every input element exactly once; for the pool
\* [A,B,C,D,E], when shuffling is disabled, round 1 makes exactly the two
\* calls (A,B) and (C,D) and carries E.
C10_ContentPreserved ==
    /\ (mpc = "done" /\ Len(original) >= 1 /\ NoFailure) =>
          \A i \in 1..Len(original) : Count(result, i) = 1
    /\ (Len(original) = 5 /\ ~shuffle /\ Len(calls) >= 1) =>
          /\ calls[1] = <<<<Chunk(1), Chunk(2)>>, <<Chunk(3), Chunk(4)>>>>
          /\ (Len(levels) >= 2 /\ NoFailure) =>
                Len(levels[2]) = 3 /\ Last(levels[2]) = Chunk(5)

C10_Witness ==
    /\ mpc = "done"
    /\ Len(original) = 5
    /\ ~shuffle
    /\ NoFailure
    /\ Len(result) = 9

\* C10 as stated: the same, for the pool [A,B,C,D,E] under every
\* configuration.
C10_Original ==
    /\ (mpc = "done" /\ Len(original) >= 1 /\ NoFailure) =>
          \A i \in 1..Len(original) : Count(result, i) = 1
    /\ (Len(original) = 5 /\ Len(calls) >= 1) =>
          /\ calls[1] = <<<<Chunk(1), Chunk(2)>>, <<Chunk(3), Chunk(4)>>>>
          /\ (Len(levels) >= 2 /\ NoFailure) =>
                Len(levels[2]) = 3 /\ Last(levels[2]) = Chunk(5)

\* ------------------------------------------------ properties: chunker.py
\* position just after raw chunk number i in the cleaned text
ChunkEnd(i) == starts[i] + Len(chunks[i])

MaxSepLen ==
    CHOOSE n \in {Len(Separators[k]) : k \in DOMAIN Separators} :
        \A k \in DOMAIN Separators : Len(Separators[k]) <= n

\* the raw chunks put end to end, each one without the characters it
\* shares with its predecessor
RECURSIVE StitchFrom(_)
StitchFrom(i) ==
    IF i > Len(chunks) THEN <<>>
    ELSE LET shared == IF i = 1 THEN 0 ELSE ChunkEnd(i - 1) - starts[i]
         IN SubSeq(chunks[i], shared + 1, Len(chunks[i])) \o StitchFrom(i + 1)

\* C6: the loop of chunk_text terminates (it never comes back to a cursor
\* value it has already cut a chunk at) and its cursor strictly increases
\* on every iteration, whatever max_chunk_size >= 1 and overlap >= 0.
C6_Progress ==
    /\ [](cpc = "loop" => start \notin Range(starts))
    /\ [][SplitStep => start' > start]_vars

\* C7: every raw chunk and every coalesced chunk is at most
\* max_chunk_size plus the length of the longest separator long.
C7_ChunkBounded ==
    \A c \in Range(chunks) \cup Range(merged_chunks) \cup Range(filtered_chunks) :
        Len(c) <= max_chunk_size + MaxSepLen

\* two raw chunks have been joined by a space into a returned chunk that is
\* longer than max_chunk_size
C7_Witness ==
    /\ cpc = "done"
    /\ Len(chunks) >= 2
    /\ \E c \in Range(filtered_chunks) : Len(c) > max_chunk_size

\* C8: the raw chunks returned by chunk_text cover the cleaned text: the
\* first starts at 0, each later one starts at or before the end of its
\* predecessor and at most overlap characters before it, the last one ends
\* at the end of the text, and the chunks without their seam overlaps, put
\* end to end, are the cleaned text.
C8_Coverage ==
    cpc \in {"coalesce", "done"} =>
        /\ (chunks = <<>>) <=> (text = <<>>)
        /\ chunks # <<>> =>
              /\ starts[1] = 0
              /\ ChunkEnd(Len(chunks)) = Len(text)
        /\ \A i \in 1..Len(chunks) :
              chunks[i] = Slice(text, starts[i], ChunkEnd(i))
        /\ \A i \in 2..Len(chunks) :
              /\ starts[i] <= ChunkEnd(i - 1)
              /\ starts[i] >= ChunkEnd(i - 1) - overlap
        /\ StitchFrom(1) = text

\* C9: _filter_chunks maps a coalesced list of length n > 3 to
\* [chunks[0], chunks[n//2], chunks[-2]] and leaves a list of length n <= 3
\* unchanged, so chunk_document returns at most 3 chunks.
C9_CountReduction ==
    cpc = "done" =>
        LET n == Len(merged_chunks)
        IN /\ n > 3 =>
                 /\ Len(filtered_chunks) = 3
                 /\ filtered_chunks[1] = merged_chunks[1]
                 /\ filtered_chunks[2] = merged_chunks[(n \div 2) + 1]
                 /\ filtered_chunks[3] = merged_chunks[n - 1]
           /\ n <= 3 => filtered_chunks = merged_chunks
           /\ Len(filtered_chunks) <= 3

\* five coalesced chunks of which the last two differ
C9_Witness ==
    /\ cpc = "done"
    /\ Len(merged_chunks) = 5
    /\ merged_chunks[4] # merged_chunks[5]
    /\ merged_chunks[3] # merged_chunks[2]
    /\ filtered_chunks = <<merged_chunks[1], merged_chunks[3], merged_chunks[4]>>

\* ------------------------------------------ properties: merger.py, cont.
\* C11: at every moment of a merge_documents call at most max_workers
\* summarization calls are in progress, also in a round with more pairs
\* than max_workers.
C11_BoundedConcurrency == Cardinality(Running) <= max_workers

\* every worker is busy while a pair of the round is still waiting
C11_Witness ==
    /\ Cardinality(Running) = max_workers
    /\ Queued # {}
    /\ Len(pairs) > max_workers

\* ------------------------------------------ properties: chunker.py, cont.
\* C12: every chunk returned by chunk_document is at least min_chunk_size
\* long (a shorter accumulator is discarded at either flush), and content
\* that is empty or only whitespace gives no chunk.
C12_MinChunkSize ==
    cpc = "done" =>
        /\ \A c \in Range(merged_chunks) \cup Range(filtered_chunks) :
              Len(c) >= min_chunk_size /\ c # <<>>
        /\ (\A i \in 1..Len(raw) : raw[i] \in Whitespace) =>
              filtered_chunks = <<>>

\* the first raw chunk is returned and the second one, shorter than
\* min_chunk_size, is discarded at the final flush
C12_Witness ==
    /\ cpc = "done"
    /\ min_chunk_size = 2
    /\ Len(chunks) = 2
    /\ Len(Strip(chunks[2])) = 1
    /\ filtered_chunks = <<Strip(chunks[1])>>

\* futures of the current round whose call has returned a text
Succeeded == {i \in DOMAIN fstate : fstate[i] = "ok"}

\* C13: rounds are separated by a barrier: whenever the calling thread is
\* between two rounds (where the pairs of the next round are formed and
\* its calls submitted) no call of the round before is queued or in
\* progress, and every one of them has contributed its result or its
\* failure to the working set.
C13_RoundBarrier ==
    (mpc = "loop" /\ Len(calls) >= 1) =>
        /\ Running = {}
        /\ Queued = {}
        /\ yielded = DOMAIN fstate
        /\ DOMAIN fstate = 1..Len(calls[Len(calls)])
        /\ Cardinality(fails[Len(fails)]) = Cardinality(DOMAIN fstate \ Succeeded)
        /\ Len(current_level) =
              Cardinality(Succeeded) + (Len(levels[Len(calls)]) % 2)
        /\ \A i \in Succeeded : fresult[i] \in Range(current_level)

\* the two calls of round 1 are over and a call of round 2 is in progress
C13_Witness ==
    /\ Len(calls) = 2
    /\ Len(calls[1]) = 2
    /\ Running # {}

\* C14 (amended): a merge_documents call creates one worker pool per round,
\* inside the loop; the pool of a round is shut down at the end of that
\* round, before the pool of the next round is created, so at most one pool
\* is open at a time and none outlives the call.
C14_PoolPerRound ==
    /\ Len(pools) = Len(calls)
    /\ \A i \in 1..(Len(pools) - 1) : pools[i] = "shutdown"
    /\ mpc \in {"submitted", "collect"} => pools[Len(pools)] = "open"
    /\ mpc \in {"loop", "done"} =>
          \A i \in 1..Len(pools) : pools[i] = "shutdown"

\* a reduction in three rounds has created and shut down three pools
C14_Witness ==
    /\ mpc = "done"
    /\ Len(calls) = 3
    /\ pools = <<"shutdown", "shutdown", "shutdown">>

\* C14 as stated: at most one pool is created per call, and it is shut down
\* only after the last round.
C14_Original ==
    /\ Len(pools) <= 1
    /\ \A i \in 1..Len(pools) :
          pools[i] = "shutdown" => Len(current_level) <= 1

\* position of the text x in the sequence s
Pos(x, s) == CHOOSE k \in 1..Len(s) : s[k] = x

\* position of future i in the order of completion
Rank(i) == CHOOSE k \in 1..Len(finished) : finished[k] = i

\* texts of the futures of seq, in the order of seq
Results(seq) == [k \in 1..Len(seq) |-> fresult[seq[k]]]

\* the successful results collected so far are in level, in the order in
\* which as_completed yields: the futures that had finished when the
\* collection loop started first, then the others by completion
InYieldOrder(level, n) ==
    /\ n = Cardinality(Succeeded \cap yielded)
    /\ \A i \in Succeeded \cap yielded :
          /\ \E k \in 1..n : level[k] = fresult[i]
          /\ \A j \in Succeeded \cap yielded :
                /\ (i \in snapshot /\ j \notin snapshot) =>
                      Pos(fresult[i], level) < Pos(fresult[j], level)
                /\ (i \notin snapshot /\ j \notin snapshot /\ Rank(i) < Rank(j)) =>
                      Pos(fresult[i], level) < Pos(fresult[j], level)

\* C15 (amended): the next working set lists the successful pair results
\* in the order in which as_completed yields them (first the calls that
\* had finished when the collection loop started, in any order, then the
\* others in the order in which they completed), followed by the odd tail
\* in last position.
C15_YieldOrder ==
    /\ mpc = "collect" => InYieldOrder(next_level, Len(next_level))
    /\ (mpc = "loop" /\ Len(calls) >= 1) =>
          LET odd == Len(levels[Len(calls)]) % 2
          IN /\ InYieldOrder(current_level, Len(current_level) - odd)
             /\ odd = 1 =>
                   Last(current_level) = Last(levels[Len(calls)])

\* without shuffling, the second pair of [A,B,C,D,E] completed first, and
\* round 2 pairs its result with that of the first pair, in that order
C15_Witness ==
    /\ ~shuffle
    /\ Len(original) = 5
    /\ Len(calls) = 2
    /\ levels[2] = <<MergePair(<<Chunk(3), Chunk(4)>>),
                     MergePair(<<Chunk(1), Chunk(2)>>), Chunk(5)>>
    /\ calls[2] = <<<<levels[2][1], levels[2][2]>>>>

\* C15 as stated: the next working set lists the successful pair results
\* in the order in which their calls completed, followed by the odd tail.
C15_Original ==
    /\ mpc = "collect" =>
          next_level =
              Results(SelectSeq(finished,
                                LAMBDA i : i \in yielded /\ fstate[i] = "ok"))
    /\ (mpc = "loop" /\ Len(calls) >= 1) =>
          current_level =
              WithOddTail(Results(SelectSeq(finished,
                                            LAMBDA i : fstate[i] = "ok")),
                          levels[Len(calls)])

\* C16: when no call fails and the pool has two or more elements, the value
\* returned is the return value of the one summarization call of the last
\* round; no input chunk is returned verbatim, not even one that was the
\* odd tail of every earlier round.
C16_ResultIsSummary ==
    (mpc = "done" /\ Len(original) >= 2 /\ NoFailure) =>
        /\ Len(calls[Len(calls)]) = 1
        /\ Len(levels[Len(calls)]) = 2
        /\ fstate = <<"ok">>
        /\ result = fresult[1]
        /\ result = MergePair(calls[Len(calls)][1])
        /\ result \notin Range(original)

\* the fifth chunk was the odd tail of rounds 1 and 2 and is summarized
\* with the rest in round 3
C16_Witness ==
    /\ mpc = "done"
    /\ ~shuffle
    /\ Len(original) = 5
    /\ NoFailure
    /\ calls[3][1][2] = Chunk(5)
    /\ result = MergePair(calls[3][1])

\* C17: merge_documents leaves the list passed by the caller unchanged,
\* whether or not shuffling is enabled.
C17_CallerListUnchanged == documents = original

\* C18: for every coalesced list of length n > 3 the three chunks kept by
\* _filter_chunks come from three distinct, strictly increasing positions,
\* so chunk_document never returns the same coalesced chunk twice.
C18_DistinctPositions ==
    (cpc = "done" /\ Len(merged_chunks) > 3) =>
        LET p == FilterIndexes(Len(merged_chunks))
        IN /\ filtered_chunks = [k \in 1..3 |-> merged_chunks[p[k] + 1]]
           /\ p[1] < p[2]
           /\ p[2] < p[3]

====
